---- MODULE Spec2Model ----
(***************************************************************************)
(* Model of trustar.api_client.ApiClient: the OAuth2 token cache           *)
(* (_get_token / _refresh_token), header construction (_get_headers), the  *)
(* expired-token test (_is_expired_token_response) and the request /       *)
(* retry / error-normalisation loop of request().                          *)
(*                                                                         *)
(* One ApiClient instance is used by one thread.  The auth server and the  *)
(* resource server are the environment: every exchange draws its response  *)
(* from a finite set.  Arithmetic is that of Python 3 (``/`` is true       *)
(* division, so ceil(x / 1000) rounds up).                                 *)
(***************************************************************************)
EXTENDS Integers, Sequences, FiniteSets, TLC

\* ----------------------------------------------------------------------
\* Bounds of the model
\* ----------------------------------------------------------------------

\* physical attempts of one logical call are counted up to this value
MaxCount == 2

\* threads that share one ApiClient in the concurrent specification
NumThreads == 2
Threads == 1..NumThreads

\* Python's None, and a JSON field that is not present in a body
None == "None"
Absent == "Absent"

\* sentinel strings of _is_expired_token_response
EXPIRED_MESSAGE == "Expired oauth2 access token"
INVALID_MESSAGE == "Invalid oauth2 access token"

\* values of the configuration keys `retry` and `max_wait_time`
RetryValues == BOOLEAN
MaxWaitValues == {1, 2}

\* the configuration dictionaries handed to ApiClient(config): the complete
\* one, and the ones that lack one of the keys 'auth', 'base', 'api_key',
\* 'api_secret' (config.get then gives None)
CompleteConfig ==
    [auth |-> "https://auth", base |-> "https://api", api_key |-> "key",
     api_secret |-> "secret"]
Configs ==
    { CompleteConfig,
      [CompleteConfig EXCEPT !.auth = None],
      [CompleteConfig EXCEPT !.base = None],
      [CompleteConfig EXCEPT !.api_key = None],
      [CompleteConfig EXCEPT !.api_secret = None] }

\* values of the configuration keys `client_type`, `client_version` and
\* `client_metatag`: one is configured, two are left None
client_type == "PYTHON_SDK"
client_version == None
client_metatag == None

\* arguments of request(): method and caller-supplied headers
Methods == {"GET", "POST", "PUT", "DELETE"}
\* (headers=None and headers={} merge nothing: both are NoCallerHeaders)
NoCallerHeaders ==
    [Authorization |-> Absent, ClientType |-> Absent,
     ClientVersion |-> Absent, ClientMetatag |-> Absent,
     ContentType |-> Absent]
CallerHeaders ==
    { NoCallerHeaders,
      [NoCallerHeaders EXCEPT !.Authorization = "Basic caller"],
      [NoCallerHeaders EXCEPT !.ContentType = "text/plain"] }

\* access_token values the auth endpoint hands out (strings, one of them
\* empty)
Tokens == {"t1", "t2", ""}

\* responses of the auth endpoint: a success carries access_token
AuthResponses ==
    [status : {200}, access_token : Tokens]
        \cup [status : {401, 500}, access_token : {Absent}]

\* what the auth endpoint can answer to HTTPBasicAuth(key, secret): it
\* authenticates the client by both, so credentials with a None half (sent
\* as the string "None") only get error statuses
AuthAnswers(key, secret) ==
    IF key = None \/ secret = None
    THEN { a \in AuthResponses : a.status # 200 }
    ELSE AuthResponses

\* bodies of resource responses: not JSON at all, or a JSON object in which
\* each of the three inspected fields is present or not.  waitTime is a
\* non-negative integer number of milliseconds; <<>> stands for a body
\* without the field.  A body
\* carries error_description (the expired-token signal) or waitTime (the
\* rate-limit signal) or neither, with or without message.
WaitTimesMs == {0, 1, 1000, 1001, 2001}
JsonBodies ==
    { b \in [json : {TRUE},
             error_description :
                 {Absent, EXPIRED_MESSAGE, INVALID_MESSAGE, "other"},
             waitTime : {<<>>} \cup {<<ms>> : ms \in WaitTimesMs},
             message : {Absent, "m"}] :
          b.error_description = Absent \/ b.waitTime = <<>> }
NonJsonBody ==
    [json |-> FALSE, error_description |-> Absent, waitTime |-> <<>>,
     message |-> Absent]
Bodies == JsonBodies \cup {NonJsonBody}

Statuses == {200, 400, 429, 500}
Responses == [status_code : Statuses, body : Bodies]

\* no auth exchange has happened in this logical call
NoAuthResponse == [status |-> 0, access_token |-> Absent]

\* value of the local `response` before the first physical attempt
NoResponse == [status_code |-> 0, body |-> NonJsonBody]

VARIABLES
    self_auth,       \* self.auth
    self_base,       \* self.base
    self_api_key,    \* self.api_key
    self_api_secret, \* self.api_secret
    self_retry,      \* self.retry
    max_wait_time,   \* self.max_wait_time
    token,           \* self.token
    pc,              \* position of the single caller inside request()
    method,          \* argument of request()
    headers,         \* argument of request()
    retry,           \* local of request()
    attempted,       \* local of request()
    base_headers,    \* local of request(): the headers of the next attempt
    response,        \* local of request(): the last physical response
    outcome,         \* how request() ended: return value or raised error
    attempts,        \* physical attempts of this logical call (history)
    refreshes,       \* auth exchanges since the last physical attempt (history)
    auth_response,   \* the last answer of the auth endpoint in this call (history)
    slept,           \* <<n>> after time.sleep(n) since the last physical
                     \* attempt, <<>> if the call has not slept since (history)
    exchanges,       \* auth exchanges of this logical call (history)
    expired_seen,    \* expired-token responses received in this call (history)
    no_token_at_start, \* self.token was None when the call was entered (history)
    indicator,       \* indicator specification: an Indicator object x
    dumped,          \* indicator specification: the dictionary x.to_dict()
    loaded,          \* indicator specification: Indicator.from_dict(dumped)
    ipc,             \* indicator specification: "new", "dumped" or "loaded"
    th,              \* concurrent specification: where each thread stands
    issued           \* concurrent specification: the access_tokens of the
                     \* successful auth exchanges completed so far (history)

vars == <<self_auth, self_base, self_api_key, self_api_secret,
          self_retry, max_wait_time, token, pc, method, headers, retry,
          attempted, base_headers, response, outcome, attempts, refreshes,
          auth_response, slept, exchanges, expired_seen, no_token_at_start,
          indicator, dumped, loaded, ipc, th, issued>>

\* the variables only the indicator specification moves
models == <<indicator, dumped, loaded, ipc>>

\* what a logical call has done so far, kept for the properties only
hist == <<exchanges, expired_seen, no_token_at_start>>

\* the variables only the concurrent specification moves
conc == <<th, issued>>

config == <<self_auth, self_base, self_api_key, self_api_secret,
            self_retry, max_wait_time>>
args == <<method, headers>>

\* ----------------------------------------------------------------------
\* Values request() can end with
\* ----------------------------------------------------------------------

\* request() has not ended
Pending ==
    [kind |-> "pending", origin |-> Absent, status_code |-> 0,
     category |-> Absent, reason |-> Absent, response |-> NoResponse]

\* `return response`
Returned(r) ==
    [kind |-> "return", origin |-> "resource", status_code |-> r.status_code,
     category |-> Absent, reason |-> Absent, response |-> r]

\* HTTPError with the category boundary off by one
HTTPError_Boundary(origin, status, reason, r) ==
    [kind |-> "HTTPError", origin |-> origin, status_code |-> status,
     category |-> IF status <= 500 THEN "Client" ELSE "Server",
     reason |-> reason, response |-> r]

\* HTTPError("{status} {Client|Server} Error: {reason}", response=...);
\* origin tells the auth exchange from the resource request
HTTPError(origin, status, reason, r) ==
    [kind |-> "HTTPError", origin |-> origin, status_code |-> status,
     category |-> IF status < 500 THEN "Client" ELSE "Server",
     reason |-> reason, response |-> r]

\* an exception other than HTTPError that leaves request()
Uncaught(name, r) ==
    [kind |-> name, origin |-> "resource", status_code |-> 0,
     category |-> Absent, reason |-> Absent, response |-> r]

\* ----------------------------------------------------------------------
\* Pure parts of ApiClient
\* ----------------------------------------------------------------------

IsErrorStatus(status) == 400 <= status /\ status < 600

\* x / 1000 rounded to the nearest whole number instead of up
CeilDiv1000_Nearest(x) == (x + 500) \div 1000

\* ceil(x / 1000) for a non-negative integer x
CeilDiv1000(x) == (x + 999) \div 1000

\* _refresh_token that assigns self.token before it looks at the status
refresh_token_StoresFirst(a, tok) ==
    IF IsErrorStatus(a.status)
    THEN [raised |-> TRUE, token |-> a.access_token,
          error |-> HTTPError("auth", a.status, "unable to get token",
                              NoResponse)]
    ELSE [raised |-> FALSE, token |-> a.access_token, error |-> Pending]

\* _refresh_token that raises on 4xx only
refresh_token_ClientOnly(a, tok) ==
    IF 400 <= a.status /\ a.status < 500
    THEN [raised |-> TRUE, token |-> tok,
          error |-> HTTPError("auth", a.status, "unable to get token",
                              NoResponse)]
    ELSE [raised |-> FALSE, token |-> a.access_token, error |-> Pending]

\* _refresh_token that keeps the first token it stored
refresh_token_KeepsOld(a, tok) ==
    IF IsErrorStatus(a.status)
    THEN [raised |-> TRUE, token |-> tok,
          error |-> HTTPError("auth", a.status, "unable to get token",
                              NoResponse)]
    ELSE [raised |-> FALSE,
          token |-> IF tok = None THEN a.access_token ELSE tok,
          error |-> Pending]

\* _refresh_token that drops the cached token when the exchange fails
refresh_token_ClearsOnFailure(a, tok) ==
    IF IsErrorStatus(a.status)
    THEN [raised |-> TRUE, token |-> None,
          error |-> HTTPError("auth", a.status, "unable to get token",
                              NoResponse)]
    ELSE [raised |-> FALSE, token |-> a.access_token, error |-> Pending]

\* _refresh_token answered by auth response a while self.token = tok:
\* raises on an error status and leaves the token, else stores access_token
refresh_token(a, tok) ==
    IF IsErrorStatus(a.status)
    THEN [raised |-> TRUE, token |-> tok,
          error |-> HTTPError("auth", a.status, "unable to get token",
                              NoResponse)]
    ELSE [raised |-> FALSE, token |-> a.access_token, error |-> Pending]

\* _get_token that hands out whatever is stored, without refreshing
get_token_NeverRefresh(a, tok) ==
    [raised |-> FALSE, token |-> tok, error |-> Pending,
     exchanged |-> FALSE]

\* _get_token that refreshes on every call
get_token_AlwaysRefresh(a, tok) ==
    LET r == refresh_token(a, tok)
    IN  [raised |-> r.raised, token |-> r.token, error |-> r.error,
         exchanged |-> TRUE]

\* _get_token: refreshes only when no token is cached; `exchanged` tells
\* whether the auth endpoint was called
get_token(a, tok) ==
    IF tok = None
    THEN LET r == refresh_token(a, tok)
         IN  [raised |-> r.raised, token |-> r.token, error |-> r.error,
              exchanged |-> TRUE]
    ELSE [raised |-> FALSE, token |-> tok, error |-> Pending,
          exchanged |-> FALSE]

\* _get_headers that always declares a JSON body
get_headers_AlwaysJson(tok, is_json) ==
    [Authorization |-> "Bearer " \o tok,
     ClientType |-> IF client_type # None THEN client_type ELSE Absent,
     ClientVersion |->
         IF client_version # None THEN client_version ELSE Absent,
     ClientMetatag |->
         IF client_metatag # None THEN client_metatag ELSE Absent,
     ContentType |-> "application/json"]

\* _get_headers, given the token _get_token returned
get_headers(tok, is_json) ==
    [Authorization |-> "Bearer " \o tok,
     ClientType |-> IF client_type # None THEN client_type ELSE Absent,
     ClientVersion |->
         IF client_version # None THEN client_version ELSE Absent,
     ClientMetatag |->
         IF client_metatag # None THEN client_metatag ELSE Absent,
     ContentType |-> IF is_json THEN "application/json" ELSE Absent]

\* base_headers.update(headers)
update(base, hdrs) ==
    [k \in DOMAIN base |-> IF hdrs[k] # Absent THEN hdrs[k] ELSE base[k]]

\* _is_expired_token_response without the status test of line 146
is_expired_token_response_AnyStatus(r) ==
    /\ r.body.json
    /\ r.body.error_description \in {EXPIRED_MESSAGE, INVALID_MESSAGE}

\* _is_expired_token_response
is_expired_token_response(r) ==
    /\ r.status_code = 400
    /\ r.body.json
    /\ r.body.error_description \in {EXPIRED_MESSAGE, INVALID_MESSAGE}

\* wait_time that rounds down
wait_time_Floor(r) == r.body.waitTime[1] \div 1000

\* wait_time = ceil(response.json().get('waitTime') / 1000)
wait_time(r) == CeilDiv1000(r.body.waitTime[1])

\* the test of line 191 without the retry flag
is_rate_limited_AnyRetry(rty, r) == r.status_code = 429

\* the test of line 191: `retry and response.status_code == 429`
is_rate_limited(rty, r) == rty /\ r.status_code = 429

\* the test of line 196 with a strict comparison
within_max_wait_Strict(w, mx) == w < mx

\* the test of line 196: `wait_time <= self.max_wait_time`
within_max_wait(w, mx) == w <= mx

\* requests refuses a URL without a scheme (MissingSchema): the auth URL is
\* self.auth, the resource URL is "{}/{}".format(self.base, path)
url_has_scheme(endpoint) == endpoint # None

\* a loop test that never lets the loop end
loop_continues_Always(att, rty) == TRUE

\* the loop test `while not attempted or retry`
loop_continues(att, rty) == ~att \/ rty

Inc(n) == IF n < MaxCount THEN n + 1 ELSE n

\* ----------------------------------------------------------------------
\* models/indicator.py
\* A field that holds a string is None or the string; a field that holds a
\* number, a boolean or a list is <<>> for None and <<v>> for the value v.
\* ----------------------------------------------------------------------

NoValue == <<>>

\* Indicator.__init__: the fourteen attributes
Indicators ==
    [value : {None, "www.evil.com", "1.2.3.4"},
     type : {None, "URL"},
     priority_level : {None, "HIGH"},
     correlation_count : {NoValue, <<3>>},
     whitelisted : {NoValue, <<TRUE>>},
     weight : {NoValue, <<1>>},
     reason : {None, "r"},
     first_seen : {NoValue, <<1000>>},
     last_seen : {NoValue, <<2000>>},
     sightings : {NoValue, <<5>>},
     source : {None, "s"},
     notes : {None, "n"},
     tags : {NoValue, << <<>> >>, << <<"malware">> >>},
     enclave_ids : {NoValue, << <<"e1">> >>}]

\* Indicator(value=None): every attribute None
BlankIndicator ==
    [value |-> None, type |-> None, priority_level |-> None,
     correlation_count |-> NoValue, whitelisted |-> NoValue,
     weight |-> NoValue, reason |-> None, first_seen |-> NoValue,
     last_seen |-> NoValue, sightings |-> NoValue, source |-> None,
     notes |-> None, tags |-> NoValue, enclave_ids |-> NoValue]

\* Tag.to_dict and Tag.from_dict live in models/tag.py; here they are only
\* known to turn a tag into a dictionary and a dictionary into a tag
Tag_to_dict(tag) == [dict_of |-> tag]
Tag_from_dict(td) == [tag_of |-> td]

\* dict.get(key): the value stored under key, None if the key is missing
dict_get(dct, key, none) == IF key \in DOMAIN dct THEN dct[key] ELSE none

\* the tags entry of to_dict, lines 108-110
tags_to_dict(tags) ==
    IF tags = NoValue THEN NoValue
    ELSE << [i \in DOMAIN tags[1] |-> Tag_to_dict(tags[1][i])] >>

\* the tags argument of from_dict, lines 79-81
tags_from_dict(tags) ==
    IF tags = NoValue THEN NoValue
    ELSE << [i \in DOMAIN tags[1] |-> Tag_from_dict(tags[1][i])] >>

\* to_dict that writes the type under the attribute's name
to_dict_AttributeName(x) ==
    [value |-> x.value, type |-> x.type,
     priorityLevel |-> x.priority_level,
     correlationCount |-> x.correlation_count,
     whitelisted |-> x.whitelisted, weight |-> x.weight,
     reason |-> x.reason, firstSeen |-> x.first_seen,
     lastSeen |-> x.last_seen, source |-> x.source, notes |-> x.notes,
     tags |-> tags_to_dict(x.tags), enclaveIds |-> x.enclave_ids]

\* Indicator.to_dict() with remove_nones=False, lines 108-126
to_dict(x) ==
    [value |-> x.value, indicatorType |-> x.type,
     priorityLevel |-> x.priority_level,
     correlationCount |-> x.correlation_count,
     whitelisted |-> x.whitelisted, weight |-> x.weight,
     reason |-> x.reason, firstSeen |-> x.first_seen,
     lastSeen |-> x.last_seen, source |-> x.source, notes |-> x.notes,
     tags |-> tags_to_dict(x.tags), enclaveIds |-> x.enclave_ids]

\* Indicator.from_dict, lines 79-95; sightings is not passed and takes the
\* default None of __init__
from_dict(dct) ==
    [value |-> dict_get(dct, "value", None),
     type |-> dict_get(dct, "indicatorType", None),
     priority_level |-> dict_get(dct, "priorityLevel", None),
     correlation_count |-> dict_get(dct, "correlationCount", NoValue),
     whitelisted |-> dict_get(dct, "whitelisted", NoValue),
     weight |-> dict_get(dct, "weight", NoValue),
     reason |-> dict_get(dct, "reason", None),
     first_seen |-> dict_get(dct, "firstSeen", NoValue),
     last_seen |-> dict_get(dct, "lastSeen", NoValue),
     sightings |-> NoValue,
     source |-> dict_get(dct, "source", None),
     notes |-> dict_get(dct, "notes", None),
     tags |-> tags_from_dict(dict_get(dct, "tags", NoValue)),
     enclave_ids |-> dict_get(dct, "enclaveIds", NoValue)]

\* ----------------------------------------------------------------------
\* State machine
\* ----------------------------------------------------------------------

\* a thread that is not inside request()
ThreadIdle == [pc |-> "idle", after |-> Absent, got |-> Absent, hdr |-> Absent]

\* ApiClient.__init__: the configuration is stored, no token is cached
Init ==
    /\ \E c \in Configs :
          /\ self_auth = c.auth
          /\ self_base = c.base
          /\ self_api_key = c.api_key
          /\ self_api_secret = c.api_secret
    /\ self_retry \in RetryValues
    /\ max_wait_time \in MaxWaitValues
    /\ token = None
    /\ pc = "idle"
    /\ method = "GET"
    /\ headers = NoCallerHeaders
    /\ retry = FALSE
    /\ attempted = FALSE
    /\ base_headers = NoCallerHeaders
    /\ response = NoResponse
    /\ outcome = Pending
    /\ attempts = 0
    /\ refreshes = 0
    /\ auth_response = NoAuthResponse
    /\ slept = <<>>
    /\ exchanges = 0
    /\ expired_seen = 0
    /\ no_token_at_start = FALSE
    /\ indicator = BlankIndicator
    /\ dumped = to_dict(BlankIndicator)
    /\ loaded = BlankIndicator
    /\ ipc = "new"
    /\ th = [t \in Threads |-> ThreadIdle]
    /\ issued = {}

\* request(method, path, headers) is entered: lines 166-168
Call(m, h) ==
    /\ UNCHANGED conc
    /\ UNCHANGED models
    /\ pc = "idle"
    /\ method' = m
    /\ headers' = h
    /\ retry' = self_retry
    /\ exchanges' = 0
    /\ expired_seen' = 0
    /\ no_token_at_start' = (token = None)
    /\ attempted' = FALSE
    /\ base_headers' = NoCallerHeaders
    /\ response' = NoResponse
    /\ outcome' = Pending
    /\ attempts' = 0
    /\ refreshes' = 0
    /\ auth_response' = NoAuthResponse
    /\ slept' = <<>>
    /\ pc' = "headers"
    /\ UNCHANGED <<config, token>>

\* top of the loop body, lines 170-173: _get_headers (with _get_token and,
\* when no token is cached, _refresh_token answered by a) and the merge of
\* the caller's headers
GetHeaders(a) ==
    /\ UNCHANGED conc
    /\ UNCHANGED models
    /\ pc = "headers"
    /\ a \in AuthAnswers(self_api_key, self_api_secret)
    /\ LET t == get_token(a, token)
       IN  IF t.exchanged /\ ~url_has_scheme(self_auth)
           THEN /\ outcome' = Uncaught("MissingSchema", response)
                /\ pc' = "done"
                /\ UNCHANGED <<token, refreshes, auth_response,
                               base_headers, exchanges>>
           ELSE
           /\ token' = t.token
           /\ refreshes' = IF t.exchanged THEN refreshes + 1 ELSE refreshes
           /\ exchanges' = IF t.exchanged THEN Inc(exchanges) ELSE exchanges
           /\ auth_response' = IF t.exchanged THEN a ELSE auth_response
           /\ IF t.raised
              THEN /\ outcome' = t.error
                   /\ pc' = "done"
                   /\ UNCHANGED base_headers
              ELSE /\ base_headers' =
                          update(get_headers(t.token,
                                             method \in {"POST", "PUT"}),
                                 headers)
                   /\ pc' = "send"
                   /\ UNCHANGED outcome
    /\ UNCHANGED <<config, args, retry, attempted, response, attempts, slept,
                   expired_seen, no_token_at_start>>

\* the physical request, lines 176-184: the server answers r
Send(r) ==
    /\ UNCHANGED conc
    /\ UNCHANGED models
    /\ pc = "send"
    /\ IF url_has_scheme(self_base)
       THEN /\ response' = r
            /\ attempted' = TRUE
            /\ attempts' = Inc(attempts)
            /\ refreshes' = 0
            /\ slept' = <<>>
            /\ expired_seen' = IF is_expired_token_response(r)
                               THEN Inc(expired_seen) ELSE expired_seen
            /\ pc' = "classify"
            /\ UNCHANGED outcome
       ELSE /\ outcome' = Uncaught("MissingSchema", response)
            /\ pc' = "done"
            /\ UNCHANGED <<response, attempted, attempts, refreshes, slept,
                           expired_seen>>
    /\ UNCHANGED <<config, args, token, retry, base_headers, auth_response,
                   exchanges, no_token_at_start>>

\* lines 187-188: the response says the token is expired, _refresh_token is
\* answered by a; then the loop test
RefreshExpired(a) ==
    /\ UNCHANGED conc
    /\ UNCHANGED models
    /\ pc = "classify"
    /\ is_expired_token_response(response)
    /\ a \in AuthAnswers(self_api_key, self_api_secret)
    /\ LET t == refresh_token(a, token)
       IN  IF ~url_has_scheme(self_auth)
           THEN /\ outcome' = Uncaught("MissingSchema", response)
                /\ pc' = "done"
                /\ UNCHANGED <<token, refreshes, auth_response, exchanges>>
           ELSE
           /\ token' = t.token
           /\ refreshes' = refreshes + 1
           /\ exchanges' = Inc(exchanges)
           /\ auth_response' = a
           /\ IF t.raised
              THEN /\ outcome' = t.error
                   /\ pc' = "done"
              ELSE /\ UNCHANGED outcome
                   /\ pc' = IF loop_continues(attempted, retry)
                            THEN "headers" ELSE "raise"
    /\ UNCHANGED <<config, args, retry, attempted, base_headers, response,
                   attempts, slept, expired_seen, no_token_at_start>>

\* lines 191-199: a 429 while retry is on; response.json() and the division
\* are outside any try, then sleep or give up; then the loop test
RateLimited ==
    /\ UNCHANGED conc
    /\ UNCHANGED models
    /\ UNCHANGED hist
    /\ pc = "classify"
    /\ ~is_expired_token_response(response)
    /\ is_rate_limited(retry, response)
    /\ IF ~response.body.json
       THEN /\ outcome' = Uncaught("ValueError", response)
            /\ pc' = "done"
            /\ UNCHANGED <<retry, slept>>
       ELSE IF response.body.waitTime = <<>>
       THEN /\ outcome' = Uncaught("TypeError", response)
            /\ pc' = "done"
            /\ UNCHANGED <<retry, slept>>
       ELSE /\ UNCHANGED outcome
            /\ IF within_max_wait(wait_time(response), max_wait_time)
               THEN /\ slept' = <<wait_time(response)>>
                    /\ UNCHANGED retry
                    /\ pc' = IF loop_continues(attempted, retry)
                             THEN "headers" ELSE "raise"
               ELSE /\ retry' = FALSE
                    /\ UNCHANGED slept
                    /\ pc' = IF loop_continues(attempted, FALSE)
                             THEN "headers" ELSE "raise"
    /\ UNCHANGED <<config, args, token, attempted, base_headers, response,
                   attempts, refreshes, auth_response>>

\* lines 202-203 switching off the configured self.retry instead of the local
Complete_ClearsConfigured ==
    /\ UNCHANGED conc
    /\ UNCHANGED models
    /\ UNCHANGED hist
    /\ pc = "classify"
    /\ ~is_expired_token_response(response)
    /\ ~is_rate_limited(retry, response)
    /\ self_retry' = FALSE
    /\ retry' = FALSE
    /\ pc' = IF loop_continues(attempted, FALSE) THEN "headers" ELSE "raise"
    /\ UNCHANGED <<self_auth, self_base, self_api_key, self_api_secret,
                   max_wait_time, args, token, attempted, base_headers,
                   response, outcome, attempts, refreshes, auth_response,
                   slept>>

\* lines 202-203: the request cycle is complete; then the loop test
Complete ==
    /\ UNCHANGED conc
    /\ UNCHANGED models
    /\ UNCHANGED hist
    /\ pc = "classify"
    /\ ~is_expired_token_response(response)
    /\ ~is_rate_limited(retry, response)
    /\ retry' = FALSE
    /\ pc' = IF loop_continues(attempted, FALSE) THEN "headers" ELSE "raise"
    /\ UNCHANGED <<config, args, token, attempted, base_headers, response,
                   outcome, attempts, refreshes, auth_response, slept>>

\* the reason of lines 209-219 that never looks at the body
error_reason_AlwaysUnknown(r) == "unknown cause"

\* the reason of lines 209-219: the body's message if the body is JSON and
\* has one, else "unknown cause"
error_reason(r) ==
    IF r.body.json /\ r.body.message # Absent
    THEN r.body.message ELSE "unknown cause"

\* lines 205-228 raising on 5xx only
final_outcome_ServerOnly(r) ==
    IF 500 <= r.status_code /\ r.status_code < 600
    THEN HTTPError("resource", r.status_code, error_reason(r), r)
    ELSE Returned(r)

\* what lines 205-228 do with the final response r
final_outcome(r) ==
    IF IsErrorStatus(r.status_code)
    THEN HTTPError("resource", r.status_code, error_reason(r), r)
    ELSE Returned(r)

\* after the loop, lines 205-228: raise the normalised error or return
RaiseOrReturn ==
    /\ UNCHANGED conc
    /\ UNCHANGED models
    /\ UNCHANGED hist
    /\ pc = "raise"
    /\ outcome' = final_outcome(response)
    /\ pc' = "done"
    /\ UNCHANGED <<config, args, token, retry, attempted, base_headers,
                   response, attempts, refreshes, auth_response, slept>>

\* request() has returned or raised: its locals are gone, the client (its
\* configuration and its cached token) is ready for the next call
Finish ==
    /\ UNCHANGED conc
    /\ UNCHANGED models
    /\ pc = "done"
    /\ pc' = "idle"
    /\ method' = "GET"
    /\ headers' = NoCallerHeaders
    /\ retry' = FALSE
    /\ attempted' = FALSE
    /\ base_headers' = NoCallerHeaders
    /\ response' = NoResponse
    /\ outcome' = Pending
    /\ attempts' = 0
    /\ refreshes' = 0
    /\ auth_response' = NoAuthResponse
    /\ slept' = <<>>
    /\ exchanges' = 0
    /\ expired_seen' = 0
    /\ no_token_at_start' = FALSE
    /\ UNCHANGED <<config, token>>

Next ==
    \/ \E m \in Methods, h \in CallerHeaders : Call(m, h)
    \/ \E a \in AuthResponses : GetHeaders(a)
    \/ \E r \in Responses : Send(r)
    \/ \E a \in AuthResponses : RefreshExpired(a)
    \/ RateLimited
    \/ Complete
    \/ RaiseOrReturn
    \/ Finish

Spec == Init /\ [][Next]_vars

\* the caller's thread keeps running: every enabled step is eventually taken
FairSpec == Spec /\ WF_vars(Next)

\* ----------------------------------------------------------------------
\* Concurrent specification: several threads call request() on one client.
\* The code takes no lock, so every read and write of self.token is a step
\* of its own and the threads interleave freely.  A thread is at
\*   "get"    line 82, about to test `self.token is None`
\*   "post"   line 98, its auth request is in flight
\*   "store"  line 108, about to assign self.token
\*   "ret"    line 84, about to read self.token for the Authorization header
\*   "send"   line 176, its resource request is in flight
\* ----------------------------------------------------------------------

seq_locals == <<pc, method, headers, retry, attempted, base_headers,
                response, outcome, attempts, refreshes, auth_response, slept,
                exchanges, expired_seen, no_token_at_start>>

\* the ways a resource response sends the loop on
ResponseKinds == {"expired", "rate_limited", "final"}

\* a thread enters request(): lines 166-171
T_Call(t) ==
    /\ UNCHANGED models
    /\ th[t].pc = "idle"
    /\ th' = [th EXCEPT ![t].pc = "get"]
    /\ UNCHANGED <<config, token, seq_locals, issued>>

\* _get_token, line 82: refresh if no token is cached
T_GetToken(t) ==
    /\ UNCHANGED models
    /\ th[t].pc = "get"
    /\ th' = IF token = None
             THEN [th EXCEPT ![t].pc = "post", ![t].after = "ret"]
             ELSE [th EXCEPT ![t].pc = "ret"]
    /\ UNCHANGED <<config, token, seq_locals, issued>>

\* _refresh_token, lines 98-105: the auth endpoint answers a; an error
\* status raises and ends the thread's call
T_AuthAnswer(t, a) ==
    /\ UNCHANGED models
    /\ th[t].pc = "post"
    /\ a \in AuthAnswers(self_api_key, self_api_secret)
    /\ LET r == refresh_token(a, token)
       IN  IF r.raised
           THEN /\ token' = r.token
                /\ th' = [th EXCEPT ![t] = ThreadIdle]
           ELSE /\ UNCHANGED token
                /\ th' = [th EXCEPT ![t].pc = "store", ![t].got = r.token]
    /\ issued' = IF a.status = 200 THEN issued \cup {a.access_token}
                 ELSE issued
    /\ UNCHANGED <<config, seq_locals>>

\* _refresh_token, line 108: self.token = access_token; then back in
\* _get_token (line 84) or at the loop test of request() (line 168)
T_Store(t) ==
    /\ UNCHANGED models
    /\ th[t].pc = "store"
    /\ token' = th[t].got
    /\ th' = IF th[t].after = "ret"
             THEN [th EXCEPT ![t].pc = "ret"]
             ELSE IF loop_continues(TRUE, self_retry)
             THEN [th EXCEPT ![t] = [ThreadIdle EXCEPT !.pc = "get"]]
             ELSE [th EXCEPT ![t] = ThreadIdle]
    /\ UNCHANGED <<config, seq_locals, issued>>

\* _get_token, line 84, and _get_headers, line 118: the token read now goes
\* into the Authorization header
T_Return(t) ==
    /\ UNCHANGED models
    /\ th[t].pc = "ret"
    /\ th' = [th EXCEPT ![t].pc = "send", ![t].hdr = token]
    /\ UNCHANGED <<config, token, seq_locals, issued>>

\* lines 176-203: the resource server answers; an expired-token response
\* goes to _refresh_token, a retried 429 goes round the loop, anything else
\* ends the call
T_Respond(t, k) ==
    /\ UNCHANGED models
    /\ th[t].pc = "send"
    /\ k = "rate_limited" => self_retry
    /\ th' = IF k = "expired"
             THEN [th EXCEPT ![t].pc = "post", ![t].after = "loop"]
             ELSE IF k = "rate_limited"
             THEN [th EXCEPT ![t] = [ThreadIdle EXCEPT !.pc = "get"]]
             ELSE [th EXCEPT ![t] = ThreadIdle]
    /\ UNCHANGED <<config, token, seq_locals, issued>>

ConcInit ==
    /\ Init
    /\ self_auth # None
    /\ self_base # None

ConcNext ==
    \/ \E t \in Threads : T_Call(t)
    \/ \E t \in Threads : T_GetToken(t)
    \/ \E t \in Threads, a \in AuthResponses : T_AuthAnswer(t, a)
    \/ \E t \in Threads : T_Store(t)
    \/ \E t \in Threads : T_Return(t)
    \/ \E t \in Threads, k \in ResponseKinds : T_Respond(t, k)

ConcSpec == ConcInit /\ [][ConcNext]_vars

ConcTypeOK ==
    /\ token \in Tokens \cup {None}
    /\ issued \subseteq Tokens
    /\ \A t \in Threads :
          /\ th[t].pc \in {"idle", "get", "post", "store", "ret", "send"}
          /\ th[t].after \in {Absent, "ret", "loop"}
          /\ th[t].got \in Tokens \cup {Absent}
          /\ th[t].hdr \in Tokens \cup {Absent}

\* ----------------------------------------------------------------------
\* Indicator specification: an Indicator is built, turned into a dictionary
\* and read back.  The client is idle throughout.
\* ----------------------------------------------------------------------

client == <<config, token, seq_locals, conc>>

\* x.to_dict()
ToDict ==
    /\ ipc = "new"
    /\ dumped' = to_dict(indicator)
    /\ ipc' = "dumped"
    /\ UNCHANGED <<client, indicator, loaded>>

\* Indicator.from_dict(...)
FromDict ==
    /\ ipc = "dumped"
    /\ loaded' = from_dict(dumped)
    /\ ipc' = "loaded"
    /\ UNCHANGED <<client, indicator, dumped>>

IndInit ==
    /\ self_auth = CompleteConfig.auth
    /\ self_base = CompleteConfig.base
    /\ self_api_key = CompleteConfig.api_key
    /\ self_api_secret = CompleteConfig.api_secret
    /\ self_retry = FALSE
    /\ max_wait_time = 1
    /\ token = None
    /\ pc = "idle"
    /\ method = "GET"
    /\ headers = NoCallerHeaders
    /\ retry = FALSE
    /\ attempted = FALSE
    /\ base_headers = NoCallerHeaders
    /\ response = NoResponse
    /\ outcome = Pending
    /\ attempts = 0
    /\ refreshes = 0
    /\ auth_response = NoAuthResponse
    /\ slept = <<>>
    /\ exchanges = 0
    /\ expired_seen = 0
    /\ no_token_at_start = FALSE
    /\ th = [t \in Threads |-> ThreadIdle]
    /\ issued = {}
    /\ indicator \in Indicators
    /\ dumped = to_dict(BlankIndicator)
    /\ loaded = BlankIndicator
    /\ ipc = "new"

IndNext == ToDict \/ FromDict

IndSpec == IndInit /\ [][IndNext]_vars

TypeOK ==
    /\ [auth |-> self_auth, base |-> self_base, api_key |-> self_api_key,
        api_secret |-> self_api_secret] \in Configs
    /\ self_retry \in BOOLEAN
    /\ max_wait_time \in MaxWaitValues
    /\ token \in Tokens \cup {None}
    /\ pc \in {"idle", "headers", "send", "classify", "raise", "done"}
    /\ method \in Methods
    /\ headers \in CallerHeaders
    /\ retry \in BOOLEAN
    /\ attempted \in BOOLEAN
    /\ response \in Responses \cup {NoResponse}
    /\ attempts \in 0..MaxCount
    /\ refreshes \in 0..2
    /\ auth_response \in AuthResponses \cup {NoAuthResponse}
    /\ slept \in {<<>>} \cup {<<n>> : n \in 0..3}
    /\ exchanges \in 0..MaxCount
    /\ expired_seen \in 0..MaxCount
    /\ no_token_at_start \in BOOLEAN

\* ----------------------------------------------------------------------
\* Properties
\* ----------------------------------------------------------------------

\* waitTime in whole seconds, rounded up, stated without the code's formula
RoundedUpSeconds(ms) ==
    CHOOSE sec \in 0..(ms \div 1000 + 1) :
        sec * 1000 >= ms /\ (sec - 1) * 1000 < ms

HasWaitTime(r) == r.body.json /\ r.body.waitTime # <<>>

\* a 429 whose wait, in whole seconds, is at most / above max_wait_time
WaitWithinMax(r) ==
    /\ r.status_code = 429
    /\ HasWaitTime(r)
    /\ RoundedUpSeconds(r.body.waitTime[1]) <= max_wait_time
WaitAboveMax(r) ==
    /\ r.status_code = 429
    /\ HasWaitTime(r)
    /\ RoundedUpSeconds(r.body.waitTime[1]) > max_wait_time

\* C1: whatever self.retry is, an expired-token response whose refresh
\* succeeds is followed by another turn of the loop (another physical
\* attempt), and a retried attempt with a status below 400 is returned.
C1_ExpiredTokenRetryUnconditional ==
    [][ /\ (pc = "classify" /\ is_expired_token_response(response)
               /\ pc' # "done")
           => pc' = "headers"
        /\ (pc = "raise" /\ attempts > 1 /\ response.status_code < 400)
           => outcome' = Returned(response) ]_vars

\* C2: every logical call of request() ends (returns or raises), whatever
\* the servers answer.
C2_CallTerminates == (pc = "headers") ~> (pc = "done")

C4_WaitAboveMaxFailsAtOnce ==
    [][ /\ (pc = "classify" /\ retry /\ WaitAboveMax(response))
           => /\ pc' = "raise"
              /\ slept' = slept
              /\ attempts' = attempts
              /\ response' = response
        /\ (pc = "raise" /\ self_retry /\ WaitAboveMax(response))
           => /\ pc' = "done"
              /\ slept' = <<>>
              /\ attempts' = attempts
              /\ outcome'.kind = "HTTPError"
              /\ outcome'.origin = "resource"
              /\ outcome'.status_code = 429
              /\ outcome'.response = response ]_vars

C4_Witness ==
    /\ pc = "done"
    /\ self_retry
    /\ WaitAboveMax(response)
    /\ outcome.kind = "HTTPError"
    /\ outcome.status_code = 429
    /\ slept = <<>>
    /\ attempts = 1

\* the call is about to make a further physical attempt: the loop body starts
\* again with a cached token, builds the headers and sends
NextAttemptFollows ==
    /\ (pc = "headers" /\ attempted) => (pc' = "send" /\ outcome' = Pending)
    /\ (pc = "send" /\ attempted)
       => (pc' = "classify" /\ attempts' = Inc(attempts))

\* C5: with retry on, a 429 whose wait in whole seconds is at most
\* max_wait_time makes the call sleep exactly that many seconds and go round
\* the loop again to a further physical attempt, nothing being raised; the
\* call sleeps in no other situation.
C5_WaitWithinMaxSleepsAndRetries ==
    [][ /\ (pc = "classify" /\ retry /\ WaitWithinMax(response))
           => /\ slept' = <<RoundedUpSeconds(response.body.waitTime[1])>>
              /\ pc' = "headers"
              /\ outcome' = Pending
        /\ NextAttemptFollows
        /\ (slept' # slept /\ slept' # <<>>)
           => (pc = "classify" /\ retry /\ WaitWithinMax(response)) ]_vars

C5_Witness ==
    /\ pc = "send"
    /\ attempts = 1
    /\ response.status_code = 429
    /\ response.body.waitTime = <<1000>>
    /\ max_wait_time = 1
    /\ slept = <<1>>

\* C6 as claimed: an HTTPError with status 429 reaches the caller only when
\* the wait computed from that response is above max_wait_time.
C6_Original ==
    (pc = "done" /\ outcome.kind = "HTTPError" /\ outcome.origin = "resource"
        /\ outcome.status_code = 429)
    => WaitAboveMax(outcome.response)

\* C6, amended: an HTTPError with status 429 reaches the caller only when
\* retry is off or the wait computed from that response is above
\* max_wait_time; with retry off every 429 ends the loop without a sleep, and
\* with retry on a 429 whose wait is within max_wait_time is slept on and
\* retried, not raised.
C6_Amended ==
    /\ [] ((pc = "done" /\ outcome.kind = "HTTPError"
               /\ outcome.origin = "resource" /\ outcome.status_code = 429)
           => /\ outcome.response = response
              /\ (~self_retry \/ WaitAboveMax(response)))
    /\ [][ /\ (pc = "classify" /\ ~self_retry /\ response.status_code = 429)
              => (pc' = "raise" /\ slept' = slept)
           /\ (pc = "raise" /\ ~self_retry /\ response.status_code = 429)
              => (outcome'.kind = "HTTPError" /\ outcome'.status_code = 429)
           /\ (pc = "classify" /\ self_retry /\ WaitWithinMax(response))
              => (pc' = "headers" /\ slept' # <<>> /\ outcome' = Pending) ]_vars

C6_Witness ==
    /\ pc = "done"
    /\ ~self_retry
    /\ WaitWithinMax(response)
    /\ outcome.kind = "HTTPError"
    /\ outcome.status_code = 429
    /\ attempts = 1

\* C7: while a token is cached, _get_token returns that very token and does
\* not call the auth endpoint; _get_token calls the auth endpoint only when
\* no token is cached.
C7_CachedTokenReused ==
    [][ /\ (pc = "headers" /\ token # None)
           => /\ token' = token
              /\ refreshes' = refreshes
              /\ auth_response' = auth_response
              /\ pc' = "send"
              /\ (headers.Authorization = Absent
                    => base_headers'.Authorization = "Bearer " \o token)
        /\ (pc = "headers" /\ refreshes' # refreshes) => token = None ]_vars

C7_Witness ==
    /\ pc = "send"
    /\ attempts = 2
    /\ refreshes = 0
    /\ auth_response.access_token = token
    /\ base_headers.Authorization = "Bearer " \o token

\* C8: an auth exchange answered with a status in [400,600) ends the call
\* with the HTTPError "unable to get token" of that status; when it happens
\* with no token cached, no physical resource request was made in the call.
C8_AuthFailureIsFatal ==
    IsErrorStatus(auth_response.status)
    => /\ pc = "done"
       /\ outcome.kind = "HTTPError"
       /\ outcome.origin = "auth"
       /\ outcome.reason = "unable to get token"
       /\ outcome.status_code = auth_response.status
       /\ (token = None => (attempts = 0 /\ ~attempted))

C8_Witness ==
    /\ pc = "done"
    /\ token = None
    /\ auth_response.status = 500
    /\ outcome.origin = "auth"
    /\ outcome.category = "Server"
    /\ attempts = 0

\* C9: once the branch taken for an expired-token response is over, exactly
\* one auth exchange has happened since that response and the cached token is
\* the access_token it returned; the headers of the next physical attempt
\* carry "Bearer " + that token unless the caller set Authorization.
C9_OneRefreshThenNewToken ==
    /\ (attempted /\ is_expired_token_response(response) /\ pc # "classify")
       => refreshes = 1
    /\ (attempted /\ is_expired_token_response(response)
           /\ pc \in {"headers", "send", "raise"})
       => token = auth_response.access_token
    /\ (attempted /\ is_expired_token_response(response) /\ pc = "send")
       => /\ token = auth_response.access_token
          /\ (headers.Authorization = Absent
                => base_headers.Authorization
                       = "Bearer " \o auth_response.access_token)
          /\ (headers.Authorization # Absent
                => base_headers.Authorization = headers.Authorization)

C9_Witness ==
    /\ pc = "send"
    /\ attempts = 1
    /\ is_expired_token_response(response)
    /\ refreshes = 1
    /\ token = "t2"
    /\ base_headers.Authorization = "Bearer t2"

\* C10: a response with a status in [400,600) whose body is not JSON, or
\* lacks a field the code reads, never ends the call with anything but an
\* HTTPError.
C10_BodyParsingNeverMasks ==
    (pc = "done" /\ attempted /\ IsErrorStatus(response.status_code)
        /\ (~response.body.json \/ response.body.waitTime = <<>>
              \/ response.body.message = Absent
              \/ response.body.error_description = Absent))
    => outcome.kind = "HTTPError"

\* C11: a client constructed from a configuration that lacks a required key
\* (api_key, api_secret, auth, base) never stands ready to take a request.
C11_MissingFieldFailsAtConstruction ==
    (pc = "idle")
    => /\ self_auth # None
       /\ self_base # None
       /\ self_api_key # None
       /\ self_api_secret # None

\* the physical attempt about to be sent, or just sent, carries base_headers
HeadersBuilt == pc \in {"send", "classify"}

\* C12: without a caller-supplied Content-Type, the headers of a physical
\* attempt carry Content-Type: application/json exactly when the method is
\* POST or PUT and no Content-Type otherwise; a caller-supplied Content-Type
\* replaces the base value.
C12_ContentTypeForPostAndPut ==
    HeadersBuilt
    => /\ (headers.ContentType = Absent /\ method \in {"POST", "PUT"})
          => base_headers.ContentType = "application/json"
       /\ (headers.ContentType = Absent /\ method \in {"GET", "DELETE"})
          => base_headers.ContentType = Absent
       /\ (headers.ContentType # Absent)
          => base_headers.ContentType = headers.ContentType

C12_Witness ==
    /\ pc = "classify"
    /\ method = "PUT"
    /\ headers.ContentType = Absent
    /\ base_headers.ContentType = "application/json"
    /\ attempts = 1

\* C13: the cached token is absent or a non-empty string, and the token
\* _get_token puts in the Authorization header is never empty.
C13_TokenAbsentOrNonEmpty ==
    /\ token # ""
    /\ (HeadersBuilt /\ headers.Authorization = Absent)
       => base_headers.Authorization # "Bearer "

\* C14: a physical request is sent only from the headers _get_headers built
\* in the same turn of the loop, and never while no token is cached.
C14_TokenBeforeEveryRequest ==
    /\ [] (HeadersBuilt => token # None)
    /\ [] ((HeadersBuilt /\ headers.Authorization = Absent)
            => base_headers.Authorization = "Bearer " \o token)
    /\ [][ /\ (pc' = "classify") => (pc = "send")
           /\ (pc' = "send") => (pc = "headers") ]_vars

C14_Witness ==
    /\ pc = "classify"
    /\ attempts = 2
    /\ token = "t1"
    /\ base_headers.Authorization = "Bearer t1"

Refreshing == { t \in Threads : th[t].pc = "post" }

\* C16: at most one token refresh is in flight at any time.
C16_AtMostOneRefreshInFlight == Cardinality(Refreshing) <= 1

\* C17: under every interleaving the cached token is absent or the
\* access_token of one completed successful auth exchange, and it changes
\* only by the assignment of line 108, to the value the assigning thread
\* received.
C17_TokenOnlyOverwrittenByRefresh ==
    /\ [] (token = None \/ token \in issued)
    /\ [][ token' # token
           => \E t \in Threads :
                 /\ th[t].pc = "store"
                 /\ th'[t].pc # "store"
                 /\ token' = th[t].got
                 /\ th[t].got \in issued ]_vars

\* the last writer wins: a thread is about to send a token that another
\* thread's later refresh has already replaced in the cache
C17_Witness ==
    \E t \in Threads, u \in Threads :
        /\ t # u
        /\ th[t].pc = "send"
        /\ th[t].hdr = "t1"
        /\ th[u].pc = "ret"
        /\ token = "t2"
        /\ issued = {"t1", "t2"}

\* C18: no step of any call changes the client configuration, and every call
\* starts with its local retry flag equal to the configured one, whatever
\* earlier calls did to theirs.
C18_ConfigurationNeverChanges ==
    [][ /\ config' = config
        /\ (pc = "idle" /\ pc' = "headers") => retry' = self_retry ]_vars

\* a call that switched its own retry flag off has ended, and the
\* configured flag is still on
C18_Witness ==
    /\ pc = "done"
    /\ attempts = 1
    /\ outcome.kind = "return"
    /\ ~retry
    /\ self_retry

\* the shape the claim gives for an expired-token response
ExpiredShape(r) ==
    /\ r.status_code = 400
    /\ r.body.json
    /\ r.body.error_description \in
          {"Expired oauth2 access token", "Invalid oauth2 access token"}

\* C19: a received response leads to a token refresh if and only if it is a
\* 400 whose JSON body carries one of the two error_description literals;
\* then the refresh comes before the rate-limit and terminal branches (the
\* retry flag and the sleep record are left alone); every other response is
\* passed on to those branches without the classification raising.
C19_ExpiredIffStatusAndSentinel ==
    [][ pc = "classify"
        => LET refreshing == \/ refreshes' = refreshes + 1
                             \/ outcome'.kind = "MissingSchema"
           IN  /\ refreshing <=> ExpiredShape(response)
               /\ ExpiredShape(response)
                  => (retry' = retry /\ slept' = slept)
               /\ ~ExpiredShape(response)
                  => /\ token' = token
                     /\ auth_response' = auth_response
                     /\ ~(retry /\ response.status_code = 429)
                        => (outcome' = Pending /\ ~retry') ]_vars

\* an "Invalid oauth2 access token" 400 was answered by a refresh and the
\* loop goes on with the retry flag as it was
C19_Witness ==
    /\ pc = "headers"
    /\ attempted
    /\ response.status_code = 400
    /\ response.body.error_description = INVALID_MESSAGE
    /\ refreshes = 1
    /\ retry

C22_FailedRefreshKeepsToken ==
    [][ /\ (refreshes' = refreshes + 1 /\ IsErrorStatus(auth_response'.status))
           => /\ token' = token
              /\ pc' = "done"
              /\ outcome'.kind = "HTTPError"
              /\ outcome'.origin = "auth"
              /\ outcome'.status_code = auth_response'.status
              /\ attempts' = attempts
        /\ (pc = "done" /\ outcome.origin = "auth")
           => (pc' = "idle" /\ token' = token) ]_vars

\* the refresh after an expired-token response failed: the stale token is
\* still cached and the call has ended after its single physical attempt
C22_Witness ==
    /\ pc = "done"
    /\ attempts = 1
    /\ is_expired_token_response(response)
    /\ IsErrorStatus(auth_response.status)
    /\ outcome.origin = "auth"
    /\ token = "t1"

\* the smaller of two numbers
Min(a, b) == IF a <= b THEN a ELSE b

\* the auth exchanges the claim allows a call: one if it started with no
\* token cached, plus one for every expired-token response it received
\* (counted up to MaxCount, as the history counters are)
AllowedExchanges ==
    Min(MaxCount, (IF no_token_at_start THEN 1 ELSE 0) + expired_seen)

\* C23: when a logical call has ended, the number of auth exchanges it made
\* is one if no token was cached at its start, else none, plus the number of
\* expired-token responses it received; a response of any other kind is
\* followed by no auth exchange.
C23_ExchangesMatchTriggers ==
    /\ [] (pc = "done" => exchanges = AllowedExchanges)
    /\ [][ (pc = "classify" /\ ~ExpiredShape(response))
           => exchanges' = exchanges ]_vars

\* the client was built from a configuration with both endpoints and both
\* credentials
ConfigComplete ==
    /\ self_auth # None /\ self_base # None
    /\ self_api_key # None /\ self_api_secret # None

\* C24: with self.retry false, every logical call makes exactly one physical
\* resource request whatever the response is and never sleeps, and an
\* expired-token response in it is still followed by one token refresh
\* before the call ends (stated here for completely configured clients
\* only).
C24_Original ==
    (~self_retry /\ ConfigComplete)
    => /\ slept = <<>>
       /\ pc = "done" => attempts = 1
       /\ (pc = "done" /\ is_expired_token_response(response))
          => refreshes = 1

\* C24 as the code has it: with self.retry false a logical call makes at
\* most one physical resource request and never sleeps; it makes exactly one
\* once it has passed its first attempt, and none only when it ended before
\* that attempt because no token could be obtained or the request could not
\* be sent; an expired-token response is still followed by one token
\* refresh before the call ends.
C24_Amended ==
    ~self_retry
    => /\ slept = <<>>
       /\ attempts <= 1
       /\ pc \in {"classify", "raise"} => attempts = 1
       /\ (pc = "done" /\ attempted) => attempts = 1
       /\ (pc = "done" /\ ~attempted)
          => /\ attempts = 0
             /\ \/ outcome.origin = "auth" /\ no_token_at_start
                \/ outcome.kind = "MissingSchema"
       /\ (pc \in {"raise", "done"} /\ is_expired_token_response(response))
          => (refreshes = 1 /\ attempts = 1)

\* with retry off, an expired-token response was followed by a successful
\* refresh and the call ended on that same response without a second attempt
C24_Witness ==
    /\ pc = "done"
    /\ ~self_retry
    /\ attempts = 1
    /\ is_expired_token_response(response)
    /\ refreshes = 1
    /\ token = "t2"
    /\ outcome.origin = "resource"
    /\ outcome.status_code = 400

\* the attributes the round trip is claimed to keep
KeptFields ==
    {"value", "type", "priority_level", "correlation_count", "whitelisted",
     "weight", "reason", "first_seen", "last_seen", "source", "notes",
     "enclave_ids"}

\* C25: for an Indicator x whose tags are None, from_dict(x.to_dict()) has
\* the value of x in each of value, type, priority_level, correlation_count,
\* whitelisted, weight, reason, first_seen, last_seen, source, notes and
\* enclave_ids; to_dict writes no sightings entry, and sightings is None
\* after the round trip whatever it was in x.
C25_RoundTripKeepsAllButSightings ==
    /\ (ipc \in {"dumped", "loaded"} /\ indicator.tags = NoValue)
       => "sightings" \notin DOMAIN dumped
    /\ (ipc = "loaded" /\ indicator.tags = NoValue)
       => /\ \A f \in KeptFields : loaded[f] = indicator[f]
          /\ loaded.sightings = NoValue
          /\ loaded.tags = NoValue

\* an Indicator with every kept attribute set and five sightings has gone
\* round: the attributes are back, the sightings are gone
C25_Witness ==
    /\ ipc = "loaded"
    /\ indicator.tags = NoValue
    /\ indicator.sightings = <<5>>
    /\ indicator.value = "www.evil.com"
    /\ indicator.type = "URL"
    /\ indicator.enclave_ids = << <<"e1">> >>
    /\ loaded.type = "URL"
    /\ loaded.sightings = NoValue

====
